---- MODULE Spec2Model ----
(***************************************************************************)
(* Request-handling pipeline of the Maijjd API server (Express 4).         *)
(*                                                                         *)
(* The server is one ordered stack of layers (app.use / app.get / app.post *)
(* registrations).  A request walks the stack from the top: every layer    *)
(* whose mount point or route matches runs as one step, and either calls   *)
(* next() (the walk goes on), calls next(err) (the walk goes on to the     *)
(* next error-handling layer) or sends the response (the walk ends).       *)
(* The only state shared by requests is the two express-rate-limit stores. *)
(***************************************************************************)
EXTENDS Integers, Sequences, FiniteSets, TLC

(***************************************************************************)
(* Bounds of the model.                                                    *)
(***************************************************************************)
\* number of requests one behaviour of the pipeline issues
MaxRequests == 2
\* number of requests one behaviour of the limiter specification issues
MaxLimiterRequests == 3
\* number of requests one behaviour of the catalog specification issues
MaxCatalogRequests == 3
MaxDispatchRequests == 2
MaxConcurrent == 3

(***************************************************************************)
(* Program constants.                                                      *)
(***************************************************************************)
\* aiLimiter: max
AiMax == 2000
\* standardLimiter: max
StandardMax == 1000

\* JavaScript's undefined, for string-valued slots (a header that was not
\* sent, a property that was never assigned; JSON.stringify drops it)
Undefined == "<undefined>"

Falsy(v) == v \in {Undefined, ""}

(***************************************************************************)
(* Strings the handlers take apart (req.params.id, req.params.category)    *)
(* are given as sequences of characters; Join makes the string.            *)
(***************************************************************************)
RECURSIVE Join(_)
Join(w) == IF w = <<>> THEN "" ELSE w[1] \o Join(Tail(w))

\* the :category segments requests carry
CategoryWords ==
  { <<"s","e","c","u","r","i","t","y">>,
    <<"S","e","c","u","r","i","t","y">>,
    <<"S","E","C","U","R","I","T","Y">>,
    <<"d","e","v","e","l","o","p","m","e","n","t">>,
    <<"D","a","t","a">>,
    <<"m","o","b","i","l","e">>,
    <<"M","o","b","i","l","e">>,
    <<"u","n","k","n","o","w","n">>,
    <<"c","o","n","s","t","r","u","c","t","o","r">>,
    <<"_","_","p","r","o","t","o","_","_">>,
    <<"t","o","S","t","r","i","n","g">> }

\* the :id segments requests carry
IdWords ==
  { <<"1">>, <<"2">>, <<"6">>, <<"1","0">>,
    <<"a","b","c">>, <<"7","u","p">>, <<"-","3">> }

\* the category names of the entries of servicesByCategory
CategoryNames ==
  { <<"D","e","v","e","l","o","p","m","e","n","t">>,
    <<"D","a","t","a">>,
    <<"I","n","t","e","g","r","a","t","i","o","n">>,
    <<"S","e","c","u","r","i","t","y">>,
    <<"A","n","a","l","y","t","i","c","s">> }

\* the literal segments of the router's patterns: as a single segment
\* they are also of the shape '/:id' takes
RouteWords == { <<"t","e","s","t">>, <<"c","a","t","e","g","o","r","y">> }

\* the characters of a string
Chars(str) ==
  CHOOSE w \in CategoryWords \cup IdWords \cup CategoryNames \cup RouteWords :
    Join(w) = str

UpperCase ==
  <<"A","B","C","D","E","F","G","H","I","J","K","L","M",
    "N","O","P","Q","R","S","T","U","V","W","X","Y","Z">>

LowerCase ==
  <<"a","b","c","d","e","f","g","h","i","j","k","l","m",
    "n","o","p","q","r","s","t","u","v","w","x","y","z">>

\* String.prototype.toLowerCase
toLowerCase(str) ==
  LET w == Chars(str)
      lower(c) == IF \E i \in 1..26 : UpperCase[i] = c
                    THEN LowerCase[CHOOSE i \in 1..26 : UpperCase[i] = c]
                    ELSE c
  IN  Join([i \in 1..Len(w) |-> lower(w[i])])

\* a JavaScript number: an integer or NaN
Num(n) == [nan |-> FALSE, value |-> n]

NaN == [nan |-> TRUE, value |-> 0]

Digits == <<"0","1","2","3","4","5","6","7","8","9">>

IsDigit(c) == \E i \in 1..10 : Digits[i] = c

DigitValue(c) == (CHOOSE i \in 1..10 : Digits[i] = c) - 1

\* the value of the first n characters of a digit string
RECURSIVE DecimalValue(_, _)
DecimalValue(w, n) ==
  IF n = 0 THEN 0 ELSE DecimalValue(w, n - 1) * 10 + DigitValue(w[n])

\* parseInt(str): an optional sign, then the longest run of digits; NaN
\* when there is no digit there
parseInt(str) ==
  LET w == Chars(str)
      signed == w # <<>> /\ w[1] \in {"-", "+"}
      rest == IF signed THEN Tail(w) ELSE w
      run == CHOOSE n \in 0..Len(rest) :
               /\ \A i \in 1..n : IsDigit(rest[i])
               /\ n < Len(rest) => ~IsDigit(rest[n + 1])
      magnitude == DecimalValue(rest, run)
  IN  IF run = 0 THEN NaN
      ELSE IF signed /\ w[1] = "-" THEN Num(0 - magnitude) ELSE Num(magnitude)

\* JSON.stringify of a number: NaN is written null
JsonNumber(x) == [null |-> x.nan, value |-> IF x.nan THEN 0 ELSE x.value]

(***************************************************************************)
(* Inbound requests.                                                       *)
(***************************************************************************)
\* client addresses (req.ip, the limiters' default key)
Clients == {"10.0.0.1", "10.0.0.2"}

Methods == {"GET", "POST", "OPTIONS"}

\* request paths, as sequences of segments
Paths ==
  { <<"health">>,
    <<"nonexistent">>,
    <<"api", "health">>,
    <<"api", "missing">>,
    <<"api", "services">>,
    <<"api", "software">>,
    <<"api", "ai", "software-analysis">> }

\* User-Agent header values
PlainAgent == "curl/8.0"
BotAgent == "Mozilla/5.0 (compatible; bot; +https://openai.com/gptbot)"

\* the (X-AI-Platform, User-Agent) pairs requests carry
AgentHeaders ==
  { [xAiPlatform |-> Undefined, userAgent |-> PlainAgent],
    [xAiPlatform |-> "openai", userAgent |-> PlainAgent],
    [xAiPlatform |-> Undefined, userAgent |-> BotAgent] }

\* X-Request-ID header values
RequestIdHeaders == {Undefined, "rid-42"}

\* the platform names a User-Agent contains (String.prototype.includes)
UaIncludes(ua, platform) ==
  /\ ua = BotAgent
  /\ platform = "openai.com"

supportedAnalysisTypes ==
  <<"performance", "security", "optimization", "usage", "compatibility", "scalability">>

\* request bodies: none, a JSON text that does not parse, a JSON text over
\* the 50mb limit, or a JSON object with the two properties the analysis
\* handler reads
JsonObjects ==
  { [software_id |-> Undefined, analysis_type |-> Undefined],
    [software_id |-> Undefined, analysis_type |-> "security"],
    [software_id |-> "sw-1", analysis_type |-> Undefined],
    [software_id |-> "sw-1", analysis_type |-> "bogus"],
    [software_id |-> "sw-1", analysis_type |-> "security"] }

NoObject == [software_id |-> Undefined, analysis_type |-> Undefined]

NoneBody == [kind |-> "none", value |-> NoObject]

Bodies ==
  { [kind |-> "malformed", value |-> NoObject],
    [kind |-> "tooLarge", value |-> NoObject] }
  \cup { [kind |-> "json", value |-> o] : o \in JsonObjects }

\* only POST carries a body
BodiesOf(method) == IF method = "POST" THEN Bodies ELSE {NoneBody}

Request(c, m, p, a, i, b) ==
  [ip |-> c, method |-> m, path |-> p, xAiPlatform |-> a.xAiPlatform,
   userAgent |-> a.userAgent, xRequestId |-> i, body |-> b,
   authorization |-> Undefined, secure |-> FALSE]

\* Authorization header values: none, or a bearer token
AuthorizationHeaders == {Undefined, "Bearer eyJhbGciOiJIUzI1NiJ9"}

\* the requests of the pipeline specification: one client, everything else
RequestsOf(m) ==
  { Request("10.0.0.1", m, p, a, i, b) :
      p \in Paths, a \in AgentHeaders, i \in RequestIdHeaders, b \in BodiesOf(m) }

Requests == UNION { RequestsOf(m) : m \in Methods }

\* the requests of the limiter specification: every client, well-formed
\* requests outside /api, under /api and under /api/ai
LimiterRequests ==
  { Request(c, "GET", p, a, Undefined, NoneBody) :
      c \in Clients, p \in {<<"health">>, <<"api", "health">>}, a \in AgentHeaders }
  \cup
  { Request(c, "POST", <<"api", "ai", "software-analysis">>, a, Undefined,
            [kind |-> "json", value |-> [software_id |-> "sw-1", analysis_type |-> "security"]]) :
      c \in Clients, a \in AgentHeaders }

\* the requests of the catalog specification: the reads of the services
\* router, writes on the catalog, the API documentation, other traffic
CatalogPaths ==
  { <<"api", "services">>, <<"api", "services", "test">>, <<"api-docs">>,
    <<"api", "health">> }
  \cup { <<"api", "services", Join(w)>> : w \in IdWords }
  \cup { <<"api", "services", "category", Join(w)>> : w \in CategoryWords }

CatalogWrites ==
  { [method |-> m, path |-> p] :
      m \in {"POST", "PUT", "DELETE"},
      p \in {<<"api", "services">>, <<"api", "services", "2">>} }

CatalogRequests ==
  { Request(c, "GET", p, a, Undefined, NoneBody) :
      c \in Clients, p \in CatalogPaths, a \in AgentHeaders }
  \cup
  { Request(c, o.method, o.path, a, Undefined,
            [kind |-> "json", value |-> [software_id |-> "sw-1", analysis_type |-> "security"]]) :
      c \in Clients, o \in CatalogWrites,
      a \in {[xAiPlatform |-> Undefined, userAgent |-> PlainAgent]} }

NoRequest ==
  [ip |-> "", method |-> "", path |-> <<>>, xAiPlatform |-> Undefined,
   userAgent |-> "", xRequestId |-> Undefined, body |-> NoneBody,
   authorization |-> Undefined, secure |-> FALSE]

\* the requests of the dispatch specification: one client, with and
\* without an Authorization header, over either listener
DispatchPaths ==
  { <<"api", "health">>,
    <<"api", "services">>,
    <<"api", "services", "test">>,
    <<"api", "services", "6">>,
    <<"api", "services", "category">>,
    <<"api", "services", "category", "security">>,
    <<"api", "ai", "software-analysis">>,
    <<"api", "ai", "chat">> }

DispatchBody(method) ==
  IF method = "POST"
    THEN [kind |-> "json",
          value |-> [software_id |-> "sw-1", analysis_type |-> "security"]]
    ELSE NoneBody

DispatchRequests ==
  { [Request("10.0.0.1", m, p, [xAiPlatform |-> Undefined, userAgent |-> PlainAgent],
             Undefined, DispatchBody(m))
       EXCEPT !.authorization = t, !.secure = s] :
      m \in {"GET", "POST"}, p \in DispatchPaths,
      t \in AuthorizationHeaders, s \in BOOLEAN }

\* the requests that are in flight at once: both clients, under one limiter
\* or under both, tagged as an AI platform or not
ConcurrentRequests ==
  { Request(c, "GET", <<"api", "health">>,
            [xAiPlatform |-> Undefined, userAgent |-> PlainAgent],
            Undefined, NoneBody) : c \in Clients }
  \cup
  { Request(c, "POST", <<"api", "ai", "software-analysis">>,
            [xAiPlatform |-> x, userAgent |-> PlainAgent], Undefined,
            DispatchBody("POST")) : c \in Clients, x \in {Undefined, "openai"} }

\* a slot of the requests in flight at once: the request, where it stands
\* (at), the limiter it stands at, the totalHits that limiter's increment
\* returned to it, and the limiters that counted it and that let it pass
NoFlight ==
  [r |-> NoRequest, at |-> "none", limiter |-> "", totalHits |-> 0,
   counted |-> {}, passed |-> {}]

NoFlights == [i \in 1..MaxConcurrent |-> NoFlight]

(***************************************************************************)
(* The application stack, in registration order.                           *)
(*   kind "use"   : app.use(path, fn), matches every path under `path`     *)
(*   kind "route" : app.METHOD(path, fn), matches the method and the whole *)
(*                  path; a segment starting with ":" matches any segment  *)
(*   kind "error" : app.use((err, req, res, next) => ...)                  *)
(*   kind "all"   : app.use('*', fn)                                       *)
(* The router mounted at /api/services (services.js) is written out as its *)
(* routes; a router that matches nothing calls next().                     *)
(***************************************************************************)
L(kind, method, path, h) == [kind |-> kind, method |-> method, path |-> path, h |-> h]

\* the middleware chain every request walks first (lines 46-203)
Middleware ==
  << L("use", "*", <<>>, "helmet"),
     L("use", "*", <<>>, "cors"),
     L("use", "*", <<"api", "ai">>, "aiLimiter"),
     L("use", "*", <<"api">>, "standardLimiter"),
     L("use", "*", <<>>, "compression"),
     L("use", "*", <<>>, "json"),
     L("use", "*", <<>>, "urlencoded"),
     L("use", "*", <<>>, "requestLogger"),
     L("use", "*", <<>>, "aiHeaders") >>

\* the routes of the application itself
AppRoutes ==
  << L("route", "GET", <<"api", "health">>, "apiHealth"),
     L("route", "GET", <<"api", "ai", "integration">>, "aiIntegration"),
     L("route", "POST", <<"api", "ai", "software-analysis">>, "softwareAnalysis"),
     L("route", "POST", <<"api", "ai", "automation-workflow">>, "automationWorkflow"),
     L("route", "POST", <<"api", "ai", "performance-optimization">>, "performanceOptimization"),
     L("route", "POST", <<"api", "ai", "security-assessment">>, "securityAssessment"),
     L("route", "GET", <<"api", "ai", "intelligent-monitoring">>, "intelligentMonitoring"),
     L("route", "GET", <<"api", "ai", "models">>, "aiModels"),
     L("use", "*", <<"api-docs">>, "swaggerUi"),
     L("route", "HEAD", <<>>, "rootHead"),
     L("route", "GET", <<>>, "rootGet"),
     L("route", "GET", <<"health">>, "health"),
     L("route", "POST", <<"refresh">>, "refresh"),
     L("route", "POST", <<"auth", "refresh">>, "authRefresh") >>

\* the mounted routers
MountedRouters ==
  << L("use", "*", <<"api", "auth">>, "authRoutes"),
     L("use", "*", <<"api", "software">>, "softwareRoutes"),
     L("route", "GET", <<"api", "services", "test">>, "servicesTest"),
     L("route", "GET", <<"api", "services">>, "servicesList"),
     L("route", "GET", <<"api", "services", ":id">>, "servicesById"),
     L("route", "GET", <<"api", "services", "category", ":category">>, "servicesByCategory"),
     L("use", "*", <<"api", "contact">>, "contactRoutes"),
     L("use", "*", <<"api", "users">>, "usersRoutes"),
     L("use", "*", <<"api", "ai">>, "aiIntegrationRoutes"),
     L("use", "*", <<"api", "payments">>, "paymentsRoutes") >>

errorHandlerLayer == L("error", "*", <<>>, "errorHandler")

notFoundLayer == L("all", "*", <<>>, "notFound")

\* Layers with the two limiters registered after body parsing and tagging
LayersLimitersLast ==
  << Middleware[1], Middleware[2], Middleware[5], Middleware[6], Middleware[7],
     Middleware[8], Middleware[9], Middleware[3], Middleware[4] >>
    \o AppRoutes \o MountedRouters \o <<errorHandlerLayer, notFoundLayer>>

\* Layers with the 404 handler registered before the mounted routers
LayersNotFoundBeforeRouters ==
  Middleware \o AppRoutes \o <<notFoundLayer>> \o MountedRouters \o <<errorHandlerLayer>>

\* Layers with the '/:id' route of the services router registered first
LayersIdRouteFirst ==
  Middleware \o AppRoutes
    \o << MountedRouters[1], MountedRouters[2], MountedRouters[5],
          MountedRouters[3], MountedRouters[4], MountedRouters[6],
          MountedRouters[7], MountedRouters[8], MountedRouters[9],
          MountedRouters[10] >>
    \o <<errorHandlerLayer, notFoundLayer>>

Layers ==
  Middleware \o AppRoutes \o MountedRouters \o <<errorHandlerLayer, notFoundLayer>>

IsPrefix(p, q) ==
  /\ Len(p) <= Len(q)
  /\ \A i \in 1..Len(p) : p[i] = q[i]

IsParam(seg) == seg \in {":id", ":category"}

\* a route pattern against a whole path
RouteMatches(pattern, path) ==
  /\ Len(pattern) = Len(path)
  /\ \A i \in 1..Len(pattern) : IsParam(pattern[i]) \/ pattern[i] = path[i]

\* does the layer take this request (failed = the walk carries an error)
LayerMatches(layer, r, failed) ==
  CASE layer.kind = "error" -> failed
    [] layer.kind = "use"   -> ~failed /\ IsPrefix(layer.path, r.path)
    [] layer.kind = "route" -> /\ ~failed
                               /\ layer.method = r.method
                               /\ RouteMatches(layer.path, r.path)
    [] layer.kind = "all"   -> ~failed

\* next(): the first layer after layer i that takes the request
NextLayer(i, r, failed) ==
  LET later == { j \in (i + 1)..Len(Layers) : LayerMatches(Layers[j], r, failed) }
  IN  CHOOSE j \in later : \A k \in later : j <= k

(***************************************************************************)
(* Failures (the err of next(err)).  status is <<>> when the error object  *)
(* has no status property, <<n>> when it has.                              *)
(***************************************************************************)
NoError == [raised |-> FALSE, name |-> "", message |-> "", status |-> <<>>, stack |-> ""]

Failure(name, message, status) ==
  [raised |-> TRUE, name |-> name, message |-> message, status |-> status,
   stack |-> name \o ": " \o message \o "\n    at <anonymous>"]

\* what body-parser raises (http-errors: status 400 / 413)
ParseFailed == Failure("SyntaxError", "Unexpected token } in JSON at position 1", <<400>>)
TooLarge == Failure("PayloadTooLargeError", "request entity too large", <<413>>)

\* what a router module outside this file may pass to next(err)
RouterFailures ==
  { Failure("Error", "connect ECONNREFUSED 127.0.0.1:5432", <<>>),
    Failure("ServiceUnavailableError", "upstream unavailable", <<503>>) }

(***************************************************************************)
(* Module load: the swagger loader (lines 10-27).  It calls path.join and  *)
(* path.resolve, but `const path` is declared on line 28, after the        *)
(* loader: evaluating `path` before its declaration has run throws a       *)
(* ReferenceError, inside the try blocks.                                  *)
(***************************************************************************)
\* the places swagger.json is looked for
SwaggerLocations == {"__dirname", "cwd"}

\* has the declaration `const path = require('path')` run at the loader
pathInitialised == FALSE

NoDocument == [openapi |-> Undefined, title |-> Undefined, paths |-> {}, from |-> ""]

\* the content of a swagger.json found at a location
SwaggerFile(location) ==
  [openapi |-> "3.0.0", title |-> "Maijjd Intelligent API",
   paths |-> {"/api/health", "/api/services"}, from |-> location]

\* the stub of lines 21-25
swaggerStub ==
  [openapi |-> "3.0.0", title |-> "Maijjd Intelligent API", paths |-> {}, from |-> "stub"]

\* require(path.join(__dirname, 'swagger.json')) and
\* require(path.resolve(process.cwd(), 'swagger.json')): the document, or a
\* throw (ReferenceError for `path`, MODULE_NOT_FOUND for the file)
RequireSwagger(location, files) ==
  IF pathInitialised /\ location \in files
    THEN [threw |-> FALSE, document |-> SwaggerFile(location)]
    ELSE [threw |-> TRUE, document |-> NoDocument]

\* the loader with the inner catch missing: the second failure escapes
LoadSwaggerWithoutStub(files) ==
  LET first == RequireSwagger("__dirname", files)
      second == RequireSwagger("cwd", files)
  IN  IF ~first.threw THEN first ELSE second

\* try { ... } catch (e1) { try { ... } catch (e2) { stub } }
LoadSwagger(files) ==
  LET first == RequireSwagger("__dirname", files)
      second == RequireSwagger("cwd", files)
  IN  IF ~first.threw THEN first
      ELSE IF ~second.threw THEN second
      ELSE [threw |-> FALSE, document |-> swaggerStub]

\* process.env.ENABLE_HTTPS as a deployment may set it
EnableHttpsValues == {Undefined, "true", "1"}

\* the files setupHTTPS reads, relative to the working directory
SslFiles == {"../ssl/private.key", "../ssl/certificate.crt"}

\* fs.readFileSync(file, 'utf8'): throws unless the file can be read; a
\* file that can be read holds what https.createServer accepts
ReadFileSync(file, readable) == [threw |-> file \notin readable]

\* setupHTTPS with the try block left unguarded: a failed read escapes
SetupHTTPSWithoutCatch(enable, readable) ==
  IF enable # "true" THEN [threw |-> FALSE, listening |-> FALSE]
  ELSE IF \/ ReadFileSync("../ssl/private.key", readable).threw
          \/ ReadFileSync("../ssl/certificate.crt", readable).threw
    THEN [threw |-> TRUE, listening |-> FALSE]
    ELSE [threw |-> FALSE, listening |-> TRUE]

\* setupHTTPS(): returns early unless ENABLE_HTTPS is exactly 'true'; else
\* reads the key, then the certificate, and listens; the catch block takes
\* whatever the try block throws and only logs
setupHTTPS(enable, readable) ==
  IF enable # "true" THEN [threw |-> FALSE, listening |-> FALSE]
  ELSE IF \/ ReadFileSync("../ssl/private.key", readable).threw
          \/ ReadFileSync("../ssl/certificate.crt", readable).threw
    THEN [threw |-> FALSE, listening |-> FALSE]
    ELSE [threw |-> FALSE, listening |-> TRUE]

(***************************************************************************)
(* Responses.  A body property that is Undefined is not in the JSON text.  *)
(***************************************************************************)
NoHeaders ==
  [contentSecurityPolicy |-> Undefined,
   xContentTypeOptions |-> Undefined,
   xFrameOptions |-> Undefined,
   xXssProtection |-> Undefined,
   xRequestId |-> Undefined,
   xApiVersion |-> Undefined,
   xApiPlatform |-> Undefined,
   cacheControl |-> Undefined]

\* the data property of a body: absent from the JSON text, an array of
\* entries, or one object (items holds the object's entry, none for {})
NoData == [kind |-> "absent", items |-> <<>>]

NoMetadata == [present |-> FALSE, total_services |-> 0, categories |-> <<>>, timestamp |-> Undefined]

NoBody ==
  [error |-> Undefined,
   message |-> Undefined,
   code |-> Undefined,
   status |-> Undefined,
   timestamp |-> Undefined,
   requestId |-> Undefined,
   retryAfter |-> Undefined,
   retryable |-> Undefined,
   suggestedAction |-> Undefined,
   errorType |-> Undefined,
   stack |-> Undefined,
   details |-> Undefined,
   availableRoutes |-> <<>>,
   supportedTypes |-> <<>>,
   software_id |-> Undefined,
   analysis_type |-> Undefined,
   data |-> NoData,
   metadata |-> NoMetadata,
   swaggerDoc |-> NoDocument]

\* new Date().toISOString()
Now == "2024-01-15T10:30:00.000Z"

\* a ServerResponse before anything touched it (statusCode defaults to 200)
NewResponse ==
  [sent |-> FALSE, status |-> 200, headers |-> NoHeaders, body |-> NoBody, by |-> ""]

\* the per-request properties the middleware attaches to req
NewContext ==
  [requestId |-> Undefined, rateLimit |-> [ai |-> 0, standard |-> 0],
   body |-> NoObject, err |-> NoError]

(***************************************************************************)
(* State.                                                                  *)
(***************************************************************************)
VARIABLES
  swaggerFiles,     \* the locations that hold a loadable swagger.json
  swaggerDocument,  \* the document the loader left (line 11)
  listening,        \* the HTTP listener of app.listen (line 799) is up
  enableHttps,      \* process.env.ENABLE_HTTPS
  sslFiles,         \* the files of SslFiles that can be read
  httpsListening,   \* the HTTPS listener of setupHTTPS (line 823) is up
  inflight,         \* concurrent requests inside the limiters
  listings,         \* what GET /api/services has returned so far, in order
  nodeEnv,    \* process.env.NODE_ENV
  hits,       \* the limiters' stores: hits[limiter][client], this window
  throttled,  \* clients the standard limiter has answered 429 so far
  req,        \* the request in flight (NoRequest before the first)
  ctx,        \* what the middleware attached to req
  res,        \* the response being built, or the one just sent
  pc,         \* index in Layers of the layer about to run; 0 when none
  ran,        \* the layers that ran for this request, in order
  nreq        \* requests issued so far

startup ==
  <<swaggerFiles, swaggerDocument, listening, enableHttps, sslFiles,
    httpsListening>>

vars ==
  <<startup, inflight, listings, nodeEnv, hits, throttled, req, ctx, res, pc,
    ran, nreq>>

NodeEnvs == {"production", "development", "test", Undefined}

Limiters == {"ai", "standard"}

Max(limiter) == IF limiter = "ai" THEN AiMax ELSE StandardMax

\* The stores start a behaviour as earlier traffic of the running window
\* left them: empty, or one short of the ceiling.
StartHits(limiter) == {0, Max(limiter) - 1}

StartStores(clients) ==
  { h \in [Limiters -> [Clients -> {0, AiMax - 1, StandardMax - 1}]] :
      \A l \in Limiters : \A c \in Clients :
        h[l][c] \in (IF c \in clients THEN StartHits(l) ELSE {0}) }

\* module load with swagger.json at the given locations, ENABLE_HTTPS set
\* as given and the given key and certificate files readable: the loader,
\* app.listen, then setupHTTPS().  An exception that escapes to the top
\* level ends the process, and with it every listener.
Loaded(files, enable, readable) ==
  LET loader == LoadSwagger(files)
      tls == setupHTTPS(enable, readable)
  IN  /\ swaggerFiles = files
      /\ swaggerDocument = loader.document
      /\ enableHttps = enable
      /\ sslFiles = readable
      /\ listening = (~loader.threw /\ ~tls.threw)
      /\ httpsListening = (~loader.threw /\ ~tls.threw /\ tls.listening)

Idle ==
  /\ inflight = NoFlights
  /\ listings = <<>>
  /\ throttled = {}
  /\ req = NoRequest
  /\ ctx = NewContext
  /\ res = NewResponse
  /\ pc = 0
  /\ ran = <<>>
  /\ nreq = 0

Init ==
  /\ Loaded(SwaggerLocations, Undefined, {})
  /\ nodeEnv \in NodeEnvs
  /\ hits \in StartStores({"10.0.0.1"})
  /\ Idle

InitCatalog ==
  /\ \E files \in SUBSET SwaggerLocations : Loaded(files, Undefined, {})
  /\ nodeEnv = "production"
  /\ hits \in StartStores({"10.0.0.1"})
  /\ Idle

InitLimiter ==
  /\ Loaded(SwaggerLocations, Undefined, {})
  /\ nodeEnv = "production"
  /\ hits \in StartStores(Clients)
  /\ Idle

Running(h) == pc > 0 /\ Layers[pc].h = h

\* next()
CallNext ==
  /\ pc' = NextLayer(pc, req, FALSE)
  /\ ran' = Append(ran, Layers[pc].h)

\* next(err) taken for next(): the failure is set aside and the walk goes on
CallNextErrDropsFailure ==
  /\ pc' = NextLayer(pc, req, FALSE)
  /\ ran' = Append(ran, Layers[pc].h)

\* next(err)
CallNextErr ==
  /\ pc' = NextLayer(pc, req, TRUE)
  /\ ran' = Append(ran, Layers[pc].h)

\* res.status(s).json(b) / res.end(): the walk ends here
Sent(status, body) ==
  [res EXCEPT !.sent = TRUE, !.status = status, !.body = body, !.by = Layers[pc].h]

Finish ==
  /\ pc' = 0
  /\ ran' = Append(ran, Layers[pc].h)

(***************************************************************************)
(* A client sends a request; the previous one has been answered.           *)
(***************************************************************************)
Arrive(r) ==
  /\ IF r.secure THEN httpsListening ELSE listening
  /\ pc = 0
  /\ ~res.sent
  /\ nreq' = nreq + 1
  /\ req' = r
  /\ pc' = NextLayer(0, r, FALSE)
  /\ UNCHANGED <<nodeEnv, startup, inflight, listings, hits, throttled, ctx, res, ran>>

\* The response has been written out: the request, what was attached to it
\* and the response object are dropped.
Discard ==
  /\ pc = 0
  /\ res.sent
  /\ req' = NoRequest
  /\ ctx' = NewContext
  /\ res' = NewResponse
  /\ ran' = <<>>
  /\ UNCHANGED <<nodeEnv, startup, inflight, listings, hits, throttled, pc, nreq>>

(***************************************************************************)
(* 1. helmet (v5+ defaults plus the configured CSP directives)             *)
(***************************************************************************)
HelmetHeaders(h) ==
  [h EXCEPT !.contentSecurityPolicy = "default-src 'self';style-src 'self' 'unsafe-inline';script-src 'self';img-src 'self' data: https:",
            !.xContentTypeOptions = "nosniff",
            !.xFrameOptions = "SAMEORIGIN",
            !.xXssProtection = "0"]

Helmet ==
  /\ Running("helmet")
  /\ res' = [res EXCEPT !.headers = HelmetHeaders(@)]
  /\ CallNext
  /\ UNCHANGED <<nodeEnv, startup, inflight, listings, hits, throttled, req, ctx, nreq>>

(***************************************************************************)
(* 2. cors: a preflight (OPTIONS) is answered here with 204; anything else *)
(* goes on.  The Access-Control-* headers are not tracked.                 *)
(***************************************************************************)
Cors ==
  /\ Running("cors")
  /\ IF req.method = "OPTIONS"
       THEN /\ res' = Sent(204, NoBody)
            /\ Finish
       ELSE /\ res' = res
            /\ CallNext
  /\ UNCHANGED <<nodeEnv, startup, inflight, listings, hits, throttled, req, ctx, nreq>>

(***************************************************************************)
(* 3. the limiters (express-rate-limit with its memory store): skip, else  *)
(* count the request under the client's key, answer 429 with the           *)
(* configured message when the count is over max, else go on.              *)
(***************************************************************************)
aiPlatforms == <<"openai.com", "anthropic.com", "google.com", "microsoft.com">>

\* aiLimiter's skip option
Skip(r) ==
  \E i \in 1..Len(aiPlatforms) :
    UaIncludes(r.userAgent, aiPlatforms[i]) \/ ~Falsy(r.xAiPlatform)

\* an increment that stops counting at the ceiling
IncrementSaturating(limiter, key) ==
  IF hits[limiter][key] >= Max(limiter)
    THEN hits[limiter][key]
    ELSE hits[limiter][key] + 1

\* the store's increment: the key's hits of this window, this one included
Increment(limiter, key) == hits[limiter][key] + 1

\* the test with the last allowed request already rejected
OverLimitAtMax(totalHits, max) == totalHits >= max

\* the middleware's test of the count against max
OverLimit(totalHits, max) == totalHits > max

AiLimitMessage ==
  [NoBody EXCEPT !.error = "AI Platform rate limit exceeded",
                 !.message = "Please try again later",
                 !.code = "AI_RATE_LIMIT_EXCEEDED",
                 !.retryAfter = "15 minutes"]

StandardLimitMessage ==
  [NoBody EXCEPT !.error = "Rate limit exceeded",
                 !.message = "Please try again later",
                 !.code = "RATE_LIMIT_EXCEEDED",
                 !.retryAfter = "15 minutes"]

AiLimiter ==
  /\ Running("aiLimiter")
  /\ IF Skip(req)
       THEN /\ UNCHANGED <<hits, ctx, res>>
            /\ CallNext
       ELSE LET totalHits == Increment("ai", req.ip)
            IN  /\ hits' = [hits EXCEPT !["ai"][req.ip] = totalHits]
                /\ ctx' = [ctx EXCEPT !.rateLimit.ai = totalHits]
                /\ IF OverLimit(totalHits, AiMax)
                     THEN /\ res' = Sent(429, AiLimitMessage)
                          /\ Finish
                     ELSE /\ res' = res
                          /\ CallNext
  /\ UNCHANGED <<nodeEnv, startup, inflight, listings, throttled, req, nreq>>

StandardLimiter ==
  /\ Running("standardLimiter")
  /\ LET totalHits == Increment("standard", req.ip)
     IN  /\ hits' = [hits EXCEPT !["standard"][req.ip] = totalHits]
         /\ ctx' = [ctx EXCEPT !.rateLimit.standard = totalHits]
         /\ IF OverLimit(totalHits, StandardMax)
              THEN /\ res' = Sent(429, StandardLimitMessage)
                   /\ throttled' = throttled \cup {req.ip}
                   /\ Finish
              ELSE /\ res' = res
                   /\ throttled' = throttled
                   /\ CallNext
  /\ UNCHANGED <<nodeEnv, startup, inflight, listings, req, nreq>>

\* windowMs has passed for a key: the store forgets it (taken between two
\* requests; a limiter reads and writes its store in one step)
WindowElapsed(limiter, key) ==
  /\ pc = 0
  /\ ~res.sent
  /\ hits[limiter][key] > 0
  /\ hits' = [hits EXCEPT ![limiter][key] = 0]
  /\ UNCHANGED <<nodeEnv, startup, inflight, listings, throttled, req, ctx, res, pc, ran, nreq>>

(***************************************************************************)
(* 4. compression wraps the response stream and goes on; the encoding of   *)
(* the bytes on the wire is not tracked.                                   *)
(***************************************************************************)
Compression ==
  /\ Running("compression")
  /\ CallNext
  /\ UNCHANGED <<nodeEnv, startup, inflight, listings, hits, throttled, req, ctx, res, nreq>>

(***************************************************************************)
(* 5. body parsing: express.json, then express.urlencoded                  *)
(***************************************************************************)
Json ==
  /\ Running("json")
  /\ IF req.body.kind = "malformed"
       THEN /\ ctx' = [ctx EXCEPT !.err = ParseFailed]
            /\ CallNextErr
       ELSE IF req.body.kind = "tooLarge"
       THEN /\ ctx' = [ctx EXCEPT !.err = TooLarge]
            /\ CallNextErr
       ELSE /\ ctx' = [ctx EXCEPT !.body = req.body.value]
            /\ CallNext
  /\ UNCHANGED <<nodeEnv, startup, inflight, listings, hits, throttled, req, res, nreq>>

\* no request of the model carries a urlencoded body
Urlencoded ==
  /\ Running("urlencoded")
  /\ CallNext
  /\ UNCHANGED <<nodeEnv, startup, inflight, listings, hits, throttled, req, ctx, res, nreq>>

(***************************************************************************)
(* 6. request tagging                                                      *)
(***************************************************************************)
\* Math.random().toString(36).substr(2, 9): empty when the draw is 0
RandomParts == {"", "k3j9x2q1z"}

\* Date.now().toString(36)
TimePart == "lrf5c2o0"

generateRequestId(random) == random \o "-" \o TimePart

RequestLogger ==
  /\ Running("requestLogger")
  /\ \E random \in RandomParts :
       ctx' = [ctx EXCEPT !.requestId =
                 IF Falsy(req.xRequestId) THEN generateRequestId(random)
                                          ELSE req.xRequestId]
  /\ CallNext
  /\ UNCHANGED <<nodeEnv, startup, inflight, listings, hits, throttled, req, res, nreq>>

(***************************************************************************)
(* 7. response metadata                                                    *)
(***************************************************************************)
AiHeadersSet(h, requestId) ==
  [h EXCEPT !.xApiVersion = "2.0.0",
            !.xApiPlatform = "Maijjd-Intelligent-System",
            !.xContentTypeOptions = "nosniff",
            !.xFrameOptions = "DENY",
            !.xXssProtection = "1; mode=block",
            !.xRequestId = requestId]

AiHeaders ==
  /\ Running("aiHeaders")
  /\ res' = [res EXCEPT !.headers = AiHeadersSet(@, ctx.requestId)]
  /\ CallNext
  /\ UNCHANGED <<nodeEnv, startup, inflight, listings, hits, throttled, req, ctx, nreq>>

(***************************************************************************)
(* Route handlers.                                                         *)
(***************************************************************************)
\* the handlers that answer 200 with a fixed JSON object
StaticHandlers == {"apiHealth", "health"}

StaticBody(h) ==
  IF h = "apiHealth"
    THEN [NoBody EXCEPT !.status = "OK",
                        !.message = "Maijjd Intelligent API is running",
                        !.timestamp = Now]
    ELSE [NoBody EXCEPT !.status = "OK",
                        !.message = "Health endpoint",
                        !.timestamp = Now]

StaticJson ==
  /\ pc > 0
  /\ Layers[pc].h \in StaticHandlers
  /\ res' = Sent(200, StaticBody(Layers[pc].h))
  /\ Finish
  /\ UNCHANGED <<nodeEnv, startup, inflight, listings, hits, throttled, req, ctx, nreq>>

Includes(seq, v) == \E i \in 1..Len(seq) : seq[i] = v

\* the test without the check of the type against the supported ones
InvalidParametersAnyType(body) ==
  \/ Falsy(body.software_id)
  \/ Falsy(body.analysis_type)

\* POST /api/ai/software-analysis
InvalidParameters(body) ==
  \/ Falsy(body.software_id)
  \/ Falsy(body.analysis_type)
  \/ ~Includes(supportedAnalysisTypes, body.analysis_type)

SoftwareAnalysis ==
  /\ Running("softwareAnalysis")
  /\ IF InvalidParameters(ctx.body)
       THEN res' = Sent(400,
                     [NoBody EXCEPT !.error = "Invalid parameters",
                                    !.message = "Missing required parameters or unsupported analysis type",
                                    !.supportedTypes = supportedAnalysisTypes])
       ELSE res' = Sent(200,
                     [NoBody EXCEPT !.software_id = ctx.body.software_id,
                                    !.analysis_type = ctx.body.analysis_type,
                                    !.timestamp = Now])
  /\ Finish
  /\ UNCHANGED <<nodeEnv, startup, inflight, listings, hits, throttled, req, ctx, nreq>>

(***************************************************************************)
(* The services router (services.js), mounted at /api/services.            *)
(***************************************************************************)
Service(id, name, category) == [id |-> Num(id), name |-> name, category |-> category]

\* an entry as JSON.stringify writes it
JsonEntry(e) == [id |-> JsonNumber(e.id), name |-> e.name, category |-> e.category]

JsonEntries(seq) == [i \in 1..Len(seq) |-> JsonEntry(seq[i])]

\* router.get('/test')
ServicesTest ==
  /\ Running("servicesTest")
  /\ res' = Sent(200, [NoBody EXCEPT !.message = "Services route is working!",
                                      !.timestamp = Now])
  /\ Finish
  /\ UNCHANGED <<nodeEnv, startup, inflight, listings, hits, throttled, req, ctx, nreq>>

\* the list GET / builds on every call
services ==
  << Service(1, "Custom Software Development", "Development"),
     Service(2, "Database Management & Analytics", "Data"),
     Service(3, "System Integration & API Development", "Integration"),
     Service(4, "User Management & Security Systems", "Security"),
     Service(5, "Advanced Analytics & Business Intelligence", "Analytics"),
     Service(6, "Cybersecurity & Compliance Solutions", "Security"),
     Service(7, "Cloud Infrastructure & DevOps", "Infrastructure"),
     Service(8, "AI & Machine Learning Solutions", "AI/ML"),
     Service(9, "Mobile App Development", "Mobile"),
     Service(10, "E-commerce & Digital Commerce", "E-commerce") >>

Categories(seq) == [i \in 1..Len(seq) |-> seq[i].category]

\* the spread with the Set left out: every element, duplicates included
SpreadKeepsDuplicates(seq) == seq

\* [...new Set(seq)]: the first occurrence of every element, in order
RECURSIVE SpreadOfSet(_)
SpreadOfSet(seq) ==
  IF seq = <<>> THEN <<>>
  ELSE LET front == SpreadOfSet(SubSeq(seq, 1, Len(seq) - 1))
           last == seq[Len(seq)]
       IN  IF Includes(front, last) THEN front ELSE Append(front, last)

ServicesCacheHeaders(h) ==
  [h EXCEPT !.cacheControl = "no-cache, no-store, must-revalidate, private"]

\* a list made to fit the caller: AI platforms get the AI/ML entries
ServicesListForPlatform(r) ==
  IF Skip(r) THEN SelectSeq(services, LAMBDA e : e.category = "AI/ML") ELSE services

\* the list GET / sends for this request
ServicesListData(r) == services

\* router.get('/')
ServicesListBody(list) ==
  [NoBody EXCEPT
     !.message = "Services retrieved successfully",
     !.data = [kind |-> "array", items |-> JsonEntries(list)],
     !.metadata = [present |-> TRUE,
                   total_services |-> Len(list),
                   categories |-> SpreadOfSet(Categories(list)),
                   timestamp |-> Now]]

\* what a client sees of a listing: the ids in order, the set of categories
Listing(body) ==
  [ids |-> [i \in 1..Len(body.data.items) |-> body.data.items[i].id],
   categories |-> {body.metadata.categories[i] : i \in 1..Len(body.metadata.categories)}]

ServicesList ==
  /\ Running("servicesList")
  /\ LET body == ServicesListBody(ServicesListData(req))
     IN  /\ res' = [Sent(200, body) EXCEPT !.headers = ServicesCacheHeaders(@)]
         /\ listings' = Append(listings, Listing(body))
  /\ Finish
  /\ UNCHANGED <<nodeEnv, startup, inflight, hits, throttled, req, ctx, nreq>>

\* the mock with NaN replaced: id: parseInt(id) || 0
ServiceByIdOrZero(id) ==
  [id |-> IF parseInt(id).nan THEN Num(0) ELSE parseInt(id),
   name |-> "Custom Software Development", category |-> "Development"]

\* the mock of router.get('/:id')
ServiceById(id) == [id |-> parseInt(id), name |-> "Custom Software Development", category |-> "Development"]

\* router.get('/:id')
ServicesById ==
  /\ Running("servicesById")
  /\ res' = Sent(200, [NoBody EXCEPT
                         !.message = "Service retrieved successfully",
                         !.data = [kind |-> "object",
                                   items |-> <<JsonEntry(ServiceById(req.path[3]))>>]])
  /\ Finish
  /\ UNCHANGED <<nodeEnv, startup, inflight, listings, hits, throttled, req, ctx, nreq>>

\* the own properties of the servicesByCategory literal
servicesByCategory ==
  [development |-> <<Service(1, "Custom Software Development", "Development")>>,
   data |-> <<Service(2, "Database Management", "Data")>>,
   integration |-> <<Service(3, "System Integration", "Integration")>>,
   security |-> <<Service(4, "User Management Systems", "Security"),
                  Service(6, "Security Solutions", "Security")>>,
   analytics |-> <<Service(5, "Analytics & Reporting", "Analytics")>>]

\* the function-valued properties an object literal inherits from
\* Object.prototype
ObjectPrototypeFunctions ==
  {"constructor", "hasOwnProperty", "isPrototypeOf", "propertyIsEnumerable",
   "toLocaleString", "toString", "valueOf", "__defineGetter__", "__defineSetter__",
   "__lookupGetter__", "__lookupSetter__"}

\* servicesByCategory[key]: an own property, else up the prototype chain
\* (__proto__ is Object.prototype itself), else undefined
CategoryProperty(key) ==
  IF key \in DOMAIN servicesByCategory
    THEN [kind |-> "array", items |-> servicesByCategory[key]]
  ELSE IF key = "__proto__" THEN [kind |-> "object", items |-> <<>>]
  ELSE IF key \in ObjectPrototypeFunctions THEN [kind |-> "function", items |-> <<>>]
  ELSE [kind |-> "undefined", items |-> <<>>]

\* servicesByCategory[category.toLowerCase()] || []
ServicesOfCategory(category) ==
  LET found == CategoryProperty(toLowerCase(category))
  IN  IF found.kind = "undefined" THEN [kind |-> "array", items |-> <<>>] ELSE found

\* the data property as res.json writes it: a function-valued property is
\* left out of the JSON text, Object.prototype is written {}
JsonData(value) ==
  IF value.kind = "function" THEN NoData
  ELSE [kind |-> value.kind, items |-> JsonEntries(value.items)]

\* router.get('/category/:category')
ServicesByCategory ==
  /\ Running("servicesByCategory")
  /\ res' = Sent(200, [NoBody EXCEPT
                         !.message = "Services retrieved successfully",
                         !.data = JsonData(ServicesOfCategory(req.path[4]))])
  /\ Finish
  /\ UNCHANGED <<nodeEnv, startup, inflight, listings, hits, throttled, req, ctx, nreq>>

\* swaggerUi.serve, swaggerUi.setup(swaggerDocument, ...): the page of the
\* document the loader left
SwaggerUi ==
  /\ Running("swaggerUi")
  /\ res' = Sent(200, [NoBody EXCEPT !.swaggerDoc = swaggerDocument])
  /\ Finish
  /\ UNCHANGED <<nodeEnv, startup, inflight, listings, hits, throttled, req, ctx, nreq>>

\* The routers required from ./routes/auth, ./routes/software,
\* ./routes/contact, ./routes/users, ./routes/ai-integration and
\* ./routes/payments: one of them answers, has no route for the request
\* (next()), or fails (next(err)).
ExternalRouters ==
  {"authRoutes", "softwareRoutes", "contactRoutes", "usersRoutes",
   "aiIntegrationRoutes", "paymentsRoutes"}

ExternalRouterAnswers ==
  /\ pc > 0
  /\ Layers[pc].h \in ExternalRouters
  /\ res' = Sent(200, [NoBody EXCEPT !.message = "OK"])
  /\ Finish
  /\ UNCHANGED <<nodeEnv, startup, inflight, listings, hits, throttled, req, ctx, nreq>>

ExternalRouterPasses ==
  /\ pc > 0
  /\ Layers[pc].h \in ExternalRouters
  /\ CallNext
  /\ UNCHANGED <<nodeEnv, startup, inflight, listings, hits, throttled, req, ctx, res, nreq>>

ExternalRouterFails(e) ==
  /\ pc > 0
  /\ Layers[pc].h \in ExternalRouters
  /\ ctx' = [ctx EXCEPT !.err = e]
  /\ CallNextErr
  /\ UNCHANGED <<nodeEnv, startup, inflight, listings, hits, throttled, req, res, nreq>>

(***************************************************************************)
(* The error-handling middleware.                                          *)
(***************************************************************************)
\* err.status >= 500 (false when err.status is undefined)
StatusAtLeast500(err) == err.status # <<>> /\ err.status[1] >= 500

\* the status with only a failure's 5xx status kept
ErrorStatusKeepsServerErrors(err) ==
  IF StatusAtLeast500(err) THEN err.status[1] ELSE 500

\* err.status || 500
ErrorStatus(err) ==
  IF err.status = <<>> \/ err.status[1] = 0 THEN 500 ELSE err.status[1]

\* process.env.NODE_ENV === 'production' ? 'Something went wrong' : err.message
ErrorMessage(env, err) ==
  IF env = "production" THEN "Something went wrong" ELSE err.message

\* the test written as "not production"
ExposesDetailOutsideProduction(env) == env # "production"

\* if (process.env.NODE_ENV === 'development') { stack, details }
ExposesDetail(env) == env = "development"

ErrorBody(env, err, requestId) ==
  [NoBody EXCEPT
     !.error = "Internal Server Error",
     !.message = ErrorMessage(env, err),
     !.code = "INTERNAL_ERROR",
     !.timestamp = Now,
     !.requestId = requestId,
     !.retryable = IF StatusAtLeast500(err) THEN "true" ELSE "false",
     !.suggestedAction = IF StatusAtLeast500(err) THEN "retry_later" ELSE "check_input",
     !.errorType = IF Falsy(err.name) THEN "UnknownError" ELSE err.name,
     !.stack = IF ExposesDetail(env) THEN err.stack ELSE Undefined,
     !.details = IF ExposesDetail(env) THEN err.name ELSE Undefined]

ErrorHandler ==
  /\ Running("errorHandler")
  /\ res' = Sent(ErrorStatus(ctx.err), ErrorBody(nodeEnv, ctx.err, ctx.requestId))
  /\ Finish
  /\ UNCHANGED <<nodeEnv, startup, inflight, listings, hits, throttled, req, ctx, nreq>>

(***************************************************************************)
(* The 404 handler.                                                        *)
(***************************************************************************)
availableRoutes ==
  <<"/api/health", "/api/software", "/api/auth", "/api/services", "/api/contact",
    "/api/users", "/api/ai/integration", "/api/ai/software-analysis",
    "/api/ai/performance-optimization", "/api/ai/security-assessment", "/api-docs">>

NotFoundBody(requestId) ==
  [NoBody EXCEPT !.error = "Not Found",
                 !.message = "Route not found",
                 !.code = "ROUTE_NOT_FOUND",
                 !.requestId = requestId,
                 !.availableRoutes = availableRoutes]

NotFound ==
  /\ Running("notFound")
  /\ res' = Sent(404, NotFoundBody(ctx.requestId))
  /\ Finish
  /\ UNCHANGED <<nodeEnv, startup, inflight, listings, hits, throttled, req, ctx, nreq>>

(***************************************************************************)
(* The system.                                                             *)
(***************************************************************************)
(***************************************************************************)
(* Requests in flight at once.  Node runs one callback at a time, but a    *)
(* limiter is an asynchronous function: it awaits the store's increment    *)
(* and decides afterwards, so steps of other requests may fall between     *)
(* the two.  No store option is given on lines 107-139, so the store is    *)
(* the in-memory one, whose increment reads and writes the count within    *)
(* one callback.                                                           *)
(***************************************************************************)
\* where app.use mounts a limiter (lines 142-143)
LimiterMount(limiter) ==
  IF limiter = "ai" THEN Middleware[3].path ELSE Middleware[4].path

\* the flight f stands before the first limiter from `limiters` (in mount
\* order) whose mount point takes its request, or has passed them all
Before(f, limiters) ==
  IF "ai" \in limiters /\ IsPrefix(LimiterMount("ai"), f.r.path)
    THEN [f EXCEPT !.at = "limiter", !.limiter = "ai"]
  ELSE IF "standard" \in limiters /\ IsPrefix(LimiterMount("standard"), f.r.path)
    THEN [f EXCEPT !.at = "limiter", !.limiter = "standard"]
  ELSE [f EXCEPT !.at = "admitted", !.limiter = ""]

\* the limiters mounted after the given one
LimitersAfter(limiter) == IF limiter = "ai" THEN {"standard"} ELSE {}

\* the store's hits before the requests in flight arrived: client 10.0.0.1
\* is one short of each ceiling, the others have sent nothing this window
BurstStart(limiter, key) == IF key = "10.0.0.1" THEN Max(limiter) - 1 ELSE 0

Quiet == <<startup, listings, nodeEnv, throttled, req, ctx, res, pc, ran, nreq>>

\* a request arrives while others are still inside the limiters
FlightArrives(i, r) ==
  /\ listening
  /\ inflight[i].at = "none"
  /\ \A j \in 1..(i - 1) : inflight[j].at # "none"
  /\ inflight' = [inflight EXCEPT ![i] = Before([NoFlight EXCEPT !.r = r], Limiters)]
  /\ UNCHANGED <<Quiet, hits>>

\* the limiter's first half for flight i: skip, or the store's increment
FlightCounted(i) ==
  LET f == inflight[i]
  IN  /\ f.at = "limiter"
      /\ IF f.limiter = "ai" /\ Skip(f.r)
           THEN /\ inflight' = [inflight EXCEPT ![i] = Before(f, LimitersAfter(f.limiter))]
                /\ hits' = hits
           ELSE LET totalHits == Increment(f.limiter, f.r.ip)
                IN  /\ hits' = [hits EXCEPT ![f.limiter][f.r.ip] = totalHits]
                    /\ inflight' =
                         [inflight EXCEPT ![i] =
                            [f EXCEPT !.at = "counted",
                                      !.totalHits = totalHits,
                                      !.counted = @ \cup {f.limiter}]]
      /\ UNCHANGED Quiet

\* the limiter's second half for flight i: 429, or next()
FlightDecided(i) ==
  LET f == inflight[i]
  IN  /\ f.at = "counted"
      /\ IF OverLimit(f.totalHits, Max(f.limiter))
           THEN inflight' = [inflight EXCEPT ![i] = [f EXCEPT !.at = "rejected"]]
           ELSE inflight' =
                  [inflight EXCEPT ![i] =
                     Before([f EXCEPT !.passed = @ \cup {f.limiter}],
                            LimitersAfter(f.limiter))]
      /\ UNCHANGED <<Quiet, hits>>

Steps ==
  \/ Discard
  \/ Helmet
  \/ Cors
  \/ AiLimiter
  \/ StandardLimiter
  \/ \E l \in Limiters : \E c \in Clients : WindowElapsed(l, c)
  \/ Compression
  \/ Json
  \/ Urlencoded
  \/ RequestLogger
  \/ AiHeaders
  \/ StaticJson
  \/ SoftwareAnalysis

Next ==
  \/ \E r \in Requests : nreq < MaxRequests /\ Arrive(r)
  \/ Steps
  \/ ServicesList
  \/ ExternalRouterAnswers
  \/ ExternalRouterPasses
  \/ \E e \in RouterFailures : ExternalRouterFails(e)
  \/ ErrorHandler
  \/ NotFound

Spec == Init /\ [][Next]_vars

\* the limiters under plain traffic of several clients
NextLimiter ==
  \/ \E r \in LimiterRequests : nreq < MaxLimiterRequests /\ Arrive(r)
  \/ Steps

SpecLimiter == InitLimiter /\ [][NextLimiter]_vars

\* the catalog reads and the API documentation, after a module load with
\* swagger.json at any of its locations
NextCatalog ==
  \/ \E r \in CatalogRequests : nreq < MaxCatalogRequests /\ Arrive(r)
  \/ Discard
  \/ Helmet
  \/ Cors
  \/ StandardLimiter
  \/ Compression
  \/ Json
  \/ Urlencoded
  \/ RequestLogger
  \/ AiHeaders
  \/ StaticJson
  \/ SwaggerUi
  \/ ServicesTest
  \/ ServicesList
  \/ ServicesById
  \/ ServicesByCategory
  \/ NotFound

SpecCatalog == InitCatalog /\ [][NextCatalog]_vars

\* the whole stack under requests with and without an Authorization
\* header, after a module load under every TLS configuration
InitDispatch ==
  /\ \E enable \in EnableHttpsValues : \E readable \in SUBSET SslFiles :
       Loaded(SwaggerLocations, enable, readable)
  /\ nodeEnv = "production"
  /\ hits \in StartStores({})
  /\ Idle

NextDispatch ==
  \/ \E r \in DispatchRequests : nreq < MaxDispatchRequests /\ Arrive(r)
  \/ Discard
  \/ Helmet
  \/ Cors
  \/ AiLimiter
  \/ StandardLimiter
  \/ Compression
  \/ Json
  \/ Urlencoded
  \/ RequestLogger
  \/ AiHeaders
  \/ StaticJson
  \/ SoftwareAnalysis
  \/ ServicesTest
  \/ ServicesList
  \/ ServicesById
  \/ ServicesByCategory
  \/ ExternalRouterAnswers
  \/ ExternalRouterPasses
  \/ \E e \in RouterFailures : ExternalRouterFails(e)
  \/ ErrorHandler
  \/ NotFound

SpecDispatch == InitDispatch /\ [][NextDispatch]_vars

\* several requests inside the limiters at once, within one window
InitConcurrent ==
  /\ Loaded(SwaggerLocations, Undefined, {})
  /\ nodeEnv = "production"
  /\ hits = [l \in Limiters |-> [c \in Clients |-> BurstStart(l, c)]]
  /\ Idle

NextConcurrent ==
  \/ \E i \in 1..MaxConcurrent : \E r \in ConcurrentRequests : FlightArrives(i, r)
  \/ \E i \in 1..MaxConcurrent : FlightCounted(i)
  \/ \E i \in 1..MaxConcurrent : FlightDecided(i)

SpecConcurrent == InitConcurrent /\ [][NextConcurrent]_vars

(***************************************************************************)
(* Properties.                                                             *)
(***************************************************************************)
UnderAi(r) == IsPrefix(<<"api", "ai">>, r.path)

Rejected(limiter) == res.sent /\ res.by = limiter

\* the count the standard limiter took for the request decides its answer
C1_CountDecides ==
  LET n == ctx.rateLimit.standard
  IN  /\ n \in 1..StandardMax => ~Rejected("standardLimiter")
      /\ n > StandardMax =>
           /\ Rejected("standardLimiter")
           /\ res.status = 429
           /\ res.body.code = "RATE_LIMIT_EXCEEDED"
      /\ n > 0 => n = hits["standard"][req.ip]

\* how a client's count in the standard limiter's store changes in one step
C1_StoreSteps ==
  \A c \in Clients :
    /\ hits'["standard"][c] > hits["standard"][c] =>
         /\ hits'["standard"][c] = hits["standard"][c] + 1
         /\ Running("standardLimiter")
         /\ req.ip = c
    /\ hits'["standard"][c] < hits["standard"][c] =>
         /\ hits'["standard"][c] = 0
         /\ pc = 0

\* C1: the standard limiter never answers 429 to one of the first
\* StandardMax requests a client makes in a window, answers 429 with code
\* RATE_LIMIT_EXCEEDED to every later one (the 1001st first); a client's
\* count rises by one with each of its own requests to /api and by nothing
\* else, and falls only by its window elapsing, which empties it, so that
\* the first request after that is the first of a new window.
C1_StandardLimiter == [](C1_CountDecides) /\ [][C1_StoreSteps]_vars

\* C1 witness: a client that was answered 429 has, after its window
\* elapsed, the first request of the new window admitted and answered
C1_Witness ==
  /\ res.sent
  /\ res.status = 200
  /\ req.ip \in throttled
  /\ ctx.rateLimit.standard = 1

\* C2 (as claimed): the standard limiter never rejects a request under
\* /api/ai that is tagged as AI-platform traffic; such a client's 1001st
\* request of a window is not answered 429 RATE_LIMIT_EXCEEDED
C2_AiTaggedBypassesStandard ==
  (UnderAi(req) /\ Skip(req)) => ~Rejected("standardLimiter")

\* the request identifier a response carries, in its header or its body
ResponseRequestId ==
  IF res.headers.xRequestId # Undefined THEN res.headers.xRequestId
                                         ELSE res.body.requestId

\* C3 (as claimed): every response a limiter, a handler, the 404 handler or
\* the error handler sends carries a request identifier, in the
\* X-Request-ID header or the requestId of the body, which is the inbound
\* X-Request-ID when there was one and a non-empty string otherwise
C3_ResponseCarriesRequestId ==
  (res.sent /\ res.by # "cors") =>
    /\ ~Falsy(ResponseRequestId)
    /\ req.xRequestId # Undefined => ResponseRequestId = req.xRequestId

\* C4 (as claimed): every response a limiter, a handler, the 404 handler or
\* the error handler sends has nosniff, X-Frame-Options DENY, an
\* X-XSS-Protection header and the content security policy
C4_HardeningHeaders ==
  (res.sent /\ res.by # "cors") =>
    /\ res.headers.xContentTypeOptions = "nosniff"
    /\ res.headers.xFrameOptions = "DENY"
    /\ res.headers.xXssProtection # Undefined
    /\ res.headers.contentSecurityPolicy # Undefined

\* the stages before dispatch, in the order the claim gives them
Chain ==
  <<"helmet", "cors", "aiLimiter", "standardLimiter", "compression", "json",
    "urlencoded", "requestLogger", "aiHeaders">>

ChainIndex(h) == CHOOSE i \in 1..Len(Chain) : Chain[i] = h

InChain(h) == Includes(Chain, h)

Applies(h, r) ==
  CASE h = "aiLimiter" -> UnderAi(r)
    [] h = "standardLimiter" -> IsPrefix(<<"api">>, r.path)
    [] OTHER -> TRUE

\* C5: the stages of one request run in the registered order, each only
\* after every earlier stage that applies to the request ran and passed
\* through, and nothing runs after the response was sent; a request a
\* limiter rejected was not body-parsed, not tagged and reached no handler
C5_StageOrder ==
  /\ \A i \in 1..Len(ran) :
       IF InChain(ran[i])
         \* a chain stage: exactly the applicable stages before it ran
         THEN /\ \A j \in 1..(i - 1) : InChain(ran[j]) /\ ChainIndex(ran[j]) < ChainIndex(ran[i])
              /\ \A k \in 1..(ChainIndex(ran[i]) - 1) :
                   Applies(Chain[k], req) => Includes(SubSeq(ran, 1, i - 1), Chain[k])
         \* the error handler: after a stage failed
         ELSE IF ran[i] = "errorHandler" THEN ctx.err.raised
         \* dispatch (a handler, a router, the 404 handler): the whole chain ran
         ELSE \A k \in 1..Len(Chain) :
                Applies(Chain[k], req) => Includes(SubSeq(ran, 1, i - 1), Chain[k])
  /\ res.sent => (pc = 0 /\ ran # <<>> /\ ran[Len(ran)] = res.by)
  /\ (Rejected("aiLimiter") \/ Rejected("standardLimiter")) =>
       /\ res.status = 429
       /\ \A i \in 1..Len(ran) : ran[i] \in {"helmet", "cors", "aiLimiter", "standardLimiter"}
       /\ ctx.body = NoObject
       /\ ctx.requestId = Undefined

\* C5 witness: the standard limiter rejected a request under /api/ai after
\* helmet, cors and the AI limiter ran, and nothing ran after it
C5_Witness ==
  /\ Rejected("standardLimiter")
  /\ ran = <<"helmet", "cors", "aiLimiter", "standardLimiter">>

ByErrorHandler == res.sent /\ res.by = "errorHandler"

\* C6 (as claimed): every response with a status of 400 or more is built by
\* the error handler (preflight answers are not failure responses)
C6_AllFailuresFromErrorHandler ==
  (res.sent /\ res.status >= 400) => res.by = "errorHandler"

\* C6 (amended): the error handler answers exactly the requests for which a
\* stage called next(err), always with a status of 400 or more; every other
\* failure response is built where the failure was found: 429 by a limiter,
\* 400 by the analysis handler, 404 by the 404 handler
C6_ErrorHandlerAnswersSignalledFailures ==
  res.sent =>
    /\ res.by = "errorHandler" <=> ctx.err.raised
    /\ res.by = "errorHandler" => res.status >= 400
    /\ (res.status >= 400 /\ res.by # "errorHandler") =>
         \/ res.by \in {"aiLimiter", "standardLimiter"} /\ res.status = 429
         \/ res.by = "softwareAnalysis" /\ res.status = 400
         \/ res.by = "notFound" /\ res.status = 404

\* C6 witness: a body that does not parse was answered 400 by the error
\* handler
C6_Witness ==
  /\ ByErrorHandler
  /\ req.body.kind = "malformed"
  /\ ctx.err = ParseFailed
  /\ res.status = 400

\* C7: the error handler answers with the failure's status when the failure
\* has one and with 500 when it has none
C7_StatusFromFailure ==
  ByErrorHandler =>
    res.status = (IF ctx.err.status = <<>> THEN 500 ELSE ctx.err.status[1])

\* C7 witness: a failure without a status was answered 500
C7_Witness ==
  /\ ByErrorHandler
  /\ ctx.err.status = <<>>
  /\ res.status = 500

\* C8 (as claimed): the error handler's body has the stack trace in every
\* mode but production, and in production neither the stack trace nor the
\* failure's own message
C8_StackInEveryNonProductionMode ==
  ByErrorHandler =>
    /\ nodeEnv # "production" => res.body.stack = ctx.err.stack
    /\ nodeEnv = "production" =>
         /\ res.body.stack = Undefined
         /\ res.body.message # ctx.err.message

\* C8 (amended): the body has the stack trace exactly when NODE_ENV is
\* 'development'; in production it has neither the stack trace nor the
\* failure's own message but 'Something went wrong'; in every other mode
\* (unset, or any other value) it has the failure's own message and no
\* stack trace
C8_StackOnlyInDevelopment ==
  ByErrorHandler =>
    /\ res.body.stack # Undefined <=> nodeEnv = "development"
    /\ res.body.details # Undefined <=> nodeEnv = "development"
    /\ nodeEnv = "development" => res.body.stack = ctx.err.stack
    /\ nodeEnv = "production" => res.body.message = "Something went wrong"
    /\ nodeEnv # "production" => res.body.message = ctx.err.message

\* C8 witness: with NODE_ENV unset the error handler sent the failure's own
\* message and no stack trace
C8_Witness ==
  /\ ByErrorHandler
  /\ nodeEnv = Undefined
  /\ res.body.stack = Undefined
  /\ res.body.message = ctx.err.message

\* C9 (as claimed): in the error handler's body retryable and
\* suggestedAction follow the status of the response: true / retry_later
\* for 500 and above, false / check_input for 400 to 499
C9_ActionFollowsStatus ==
  ByErrorHandler =>
    /\ res.status >= 500 =>
         /\ res.body.retryable = "true"
         /\ res.body.suggestedAction = "retry_later"
    /\ res.status \in 400..499 =>
         /\ res.body.retryable = "false"
         /\ res.body.suggestedAction = "check_input"

\* a route of the stack matches the request's method and path
RouteRegistered(r) ==
  \E i \in 1..Len(Layers) :
    Layers[i].kind = "route" /\ LayerMatches(Layers[i], r, FALSE)

\* the path is under the mount point of a router of another file
UnderExternalRouter(r) ==
  \E i \in 1..Len(Layers) :
    Layers[i].h \in ExternalRouters /\ IsPrefix(Layers[i].path, r.path)

IsNotFoundResponse ==
  /\ res.status = 404
  /\ res.body.error = "Not Found"
  /\ res.body.code = "ROUTE_NOT_FOUND"
  /\ res.body.availableRoutes = availableRoutes

\* C10 (as claimed): every request, preflights aside, whose method and path
\* match no registered route is answered 404 Not Found / ROUTE_NOT_FOUND
\* with the list of routes
C10_UnmatchedAlwaysNotFound ==
  (res.sent /\ req.method # "OPTIONS"
     /\ ~RouteRegistered(req) /\ ~UnderExternalRouter(req)) => IsNotFoundResponse

\* C10 (amended): a request whose method and path match no registered route
\* is answered by the 404 handler unless an earlier stage answered it (cors
\* a preflight, a limiter with 429, the error handler a body that does not
\* parse); the 404 handler always answers 404 Not Found / ROUTE_NOT_FOUND
\* with the list of routes, and never a request that matches a route
C10_UnmatchedReachesNotFound ==
  res.sent =>
    /\ (~RouteRegistered(req) /\ ~UnderExternalRouter(req)) =>
         res.by \in {"cors", "aiLimiter", "standardLimiter", "errorHandler", "notFound"}
    /\ (~RouteRegistered(req) /\ ~UnderExternalRouter(req)
          /\ req.method # "OPTIONS" /\ req.body.kind \in {"none", "json"}
          /\ res.status # 429) => res.by = "notFound"
    /\ res.by = "notFound" => (IsNotFoundResponse /\ ~RouteRegistered(req))

\* C10 witness: a well-formed POST under /api to a path no route matches
\* was answered by the 404 handler
C10_Witness ==
  /\ res.sent
  /\ res.by = "notFound"
  /\ req.path = <<"api", "missing">>
  /\ req.method = "POST"
  /\ IsNotFoundResponse

Answered(h) == res.sent /\ res.by = h

EqualsIgnoringCase(a, b) == toLowerCase(a) = toLowerCase(b)

\* the keys of the fixed category mapping
CategoryKeys == {"development", "data", "integration", "security", "analytics"}

\* C11 (as claimed): GET /api/services/category/{c} answers 200; when c is
\* a key of the category mapping ignoring case, data is a list of entries
\* whose category equals c ignoring case; for every other c, the names of
\* built-in object properties included, data is an empty list
C11_CategoryLookup ==
  Answered("servicesByCategory") =>
    LET c == req.path[4]
        data == res.body.data
    IN  /\ res.status = 200
        /\ data.kind = "array"
        /\ IF toLowerCase(c) \in CategoryKeys
             THEN /\ data.items # <<>>
                  /\ \A i \in 1..Len(data.items) :
                       EqualsIgnoringCase(data.items[i].category, c)
             ELSE data.items = <<>>

\* C12: every answer of GET /api/services has status 200, a data list of
\* exactly 10 entries with pairwise distinct ids, metadata.total_services
\* equal to the length of data, and metadata.categories holding every
\* category of data exactly once and nothing else
C12_CatalogListing ==
  Answered("servicesList") =>
    LET items == res.body.data.items
        categories == res.body.metadata.categories
    IN  /\ res.status = 200
        /\ res.body.data.kind = "array"
        /\ Len(items) = 10
        /\ \A i, j \in 1..Len(items) : items[i].id = items[j].id => i = j
        /\ res.body.metadata.present
        /\ res.body.metadata.total_services = Len(items)
        /\ \A i \in 1..Len(items) :
             Cardinality({k \in 1..Len(categories) : categories[k] = items[i].category}) = 1
        /\ \A k \in 1..Len(categories) :
             \E i \in 1..Len(items) : items[i].category = categories[k]

\* C12 witness: GET /api/services was answered with the list, two of whose
\* entries have the category Security
C12_Witness ==
  /\ Answered("servicesList")
  /\ res.body.data.items[4].category = "Security"
  /\ res.body.data.items[6].category = "Security"

\* C13: whatever requests came before, from whichever client, GET
\* /api/services returns the ordered ids and the category set that the
\* first GET /api/services of the process returned
C13_ListingStable ==
  /\ \A i \in 1..Len(listings) : listings[i] = listings[1]
  /\ Answered("servicesList") =>
       (listings # <<>> /\ Listing(res.body) = listings[Len(listings)])

\* C13 witness: the third request of the process, made by the second
\* client, was answered the second listing of the process: one of the
\* earlier requests was a listing, the other was not
C13_Witness ==
  /\ Answered("servicesList")
  /\ Len(listings) = 2
  /\ nreq = 3
  /\ req.ip = "10.0.0.2"

\* C14 (as claimed): POST /api/services, unless a limiter rejects it, is
\* answered with a 2xx success envelope
C14_CatalogWriteAccepted ==
  (res.sent /\ req.method = "POST" /\ req.path = <<"api", "services">>
     /\ res.status # 429) =>
    /\ res.status \in 200..299
    /\ res.body.message # Undefined
    /\ res.body.error = Undefined

\* the 400 of the analysis handler
IsInvalidParameters ==
  /\ res.status = 400
  /\ res.body.error = "Invalid parameters"
  /\ res.body.supportedTypes =
       <<"performance", "security", "optimization", "usage", "compatibility", "scalability">>

\* C15: POST /api/ai/software-analysis answers a body whose analysis_type
\* is absent or not one of the six supported types, the empty body {}
\* included, and a body without software_id, with 400 'Invalid parameters'
\* and the full list of six supportedTypes; it answers a body with a
\* software_id and a supported analysis_type with 200, echoing both
C15_AnalysisValidation ==
  Answered("softwareAnalysis") =>
    LET sent == req.body.value
        supported == sent.analysis_type \in
                       {"performance", "security", "optimization", "usage",
                        "compatibility", "scalability"}
    IN  /\ req.body.kind = "json"
        /\ ~supported => IsInvalidParameters
        /\ sent.software_id = Undefined => IsInvalidParameters
        /\ (supported /\ sent.software_id # Undefined) =>
             /\ res.status = 200
             /\ res.body.software_id = sent.software_id
             /\ res.body.analysis_type = sent.analysis_type

\* C15 witness: the empty body {} was answered 400 'Invalid parameters'
C15_Witness ==
  /\ Answered("softwareAnalysis")
  /\ req.body.value = [software_id |-> Undefined, analysis_type |-> Undefined]
  /\ IsInvalidParameters

\* the segment has no integer at its start
NotAnInteger(segment) ==
  LET w == Chars(segment)
  IN  /\ ~IsDigit(w[1])
      /\ ~(w[1] \in {"-", "+"} /\ Len(w) > 1 /\ IsDigit(w[2]))

\* C16: GET /api/services/:id with a segment that does not parse as an
\* integer is answered 200 with the synthetic service object, whose id is
\* NaN (null in the JSON text), and no answer of the handler is a 4xx
C16_UnparsedIdAnswered ==
  Answered("servicesById") =>
    /\ res.status \notin 400..499
    /\ NotAnInteger(req.path[3]) =>
         /\ res.status = 200
         /\ res.body.data.kind = "object"
         /\ res.body.data.items[1].name = "Custom Software Development"
         /\ res.body.data.items[1].id.null

\* C16 witness: GET /api/services/abc was answered 200 with id null
C16_Witness ==
  /\ Answered("servicesById")
  /\ req.path[3] = "abc"
  /\ res.status = 200
  /\ res.body.data.items[1].id.null

\* C17 (as claimed): GET /api/services/:id with an id in 1..10 returns the
\* entry that has this id in the GET /api/services list: same id, name and
\* category
C17_ServiceByIdIsListed ==
  (Answered("servicesById") /\ ~NotAnInteger(req.path[3])) =>
    LET id == parseInt(req.path[3]).value
    IN  id \in 1..Len(services) =>
          /\ res.body.data.kind = "object"
          /\ res.body.data.items[1] = JsonEntry(services[id])

CatalogReads == {"servicesList", "servicesById", "servicesByCategory"}

\* C18 (as claimed): every answer of a catalog read (list, by id, by
\* category) has Cache-Control: no-cache, no-store, must-revalidate,
\* private, and no other response has that header
C18_CatalogReadsNotCached ==
  res.sent =>
    IF res.by \in CatalogReads
      THEN res.headers.cacheControl = "no-cache, no-store, must-revalidate, private"
      ELSE res.headers.cacheControl = Undefined

\* C19 (as claimed): every JSON body sent, success or error, has a message
\* or an error property, and a timestamp property
C19_BodyHasMessageAndTimestamp ==
  (res.sent /\ res.by \notin {"cors", "swaggerUi"}) =>
    /\ res.body.message # Undefined \/ res.body.error # Undefined
    /\ res.body.timestamp # Undefined

\* C20: when swagger.json can be loaded from neither location, the module
\* still loads up to app.listen and the document set up at /api-docs is
\* the stub: openapi 3.0.0, no paths
C20_StubWhenNoSwaggerFile ==
  /\ swaggerFiles = {} =>
       /\ listening
       /\ swaggerDocument.openapi = "3.0.0"
       /\ swaggerDocument.paths = {}
       /\ swaggerDocument.from = "stub"
  /\ Answered("swaggerUi") => res.body.swaggerDoc = swaggerDocument

\* C20 witness: with no swagger.json anywhere the server answered
\* GET /api-docs with the stub
C20_Witness ==
  /\ swaggerFiles = {}
  /\ Answered("swaggerUi")
  /\ res.status = 200
  /\ res.body.swaggerDoc.from = "stub"
  /\ res.body.swaggerDoc.paths = {}


\* a 2xx answer that went out over the HTTP listener
AnsweredOverHttp == res.sent /\ ~req.secure /\ res.status \in 200..299

C21_WitnessHttps ==
  /\ enableHttps = "true"
  /\ sslFiles = SslFiles
  /\ res.sent
  /\ req.secure

\* C22: no request to a path under /api that carries no Authorization
\* header is answered with a 2xx status (here: by a handler of the server
\* file or of the services router).
C22_NoSuccessWithoutToken ==
  (/\ res.sent
   /\ IsPrefix(<<"api">>, req.path)
   /\ req.authorization = Undefined
   /\ res.by \notin ExternalRouters)
    => res.status \notin 200..299

\* the flights of a client that stand in the given set of a flight's
\* limiters (counted or passed)
FlightsOf(key, limiter, field) ==
  { i \in 1..MaxConcurrent :
      /\ inflight[i].r.ip = key
      /\ limiter \in (IF field = "counted" THEN inflight[i].counted
                                           ELSE inflight[i].passed) }

\* C23: under every interleaving of the requests that are in flight at once
\* within one window, for each limiter and client the requests the limiter
\* has admitted this window never exceed its ceiling, and the counter
\* equals the number of requests the limiter has counted this window.
C23_AtomicCount ==
  \A l \in Limiters : \A c \in Clients :
    /\ BurstStart(l, c) + Cardinality(FlightsOf(c, l, "passed")) <= Max(l)
    /\ hits[l][c] = BurstStart(l, c) + Cardinality(FlightsOf(c, l, "counted"))

\* two requests of the client that was one short of the ceiling have both
\* been counted by the standard limiter and neither has been decided yet
C23_Witness ==
  \E i, j \in 1..MaxConcurrent :
    /\ i # j
    /\ \A k \in {i, j} :
         /\ inflight[k].r.ip = "10.0.0.1"
         /\ inflight[k].at = "counted"
         /\ inflight[k].limiter = "standard"
    /\ hits["standard"]["10.0.0.1"] = StandardMax + 1

\* C24: when swagger.json can be loaded from the directory of the server
\* script, or failing that from the working directory, the document served
\* at /api-docs is that file's document (the script directory's first) and
\* not the stub; the stub is served only when the file is at neither place.
C24_BundledDocumentServed ==
  Answered("swaggerUi") =>
    /\ "__dirname" \in swaggerFiles =>
         res.body.swaggerDoc = SwaggerFile("__dirname")
    /\ ("__dirname" \notin swaggerFiles /\ "cwd" \in swaggerFiles) =>
         res.body.swaggerDoc = SwaggerFile("cwd")
    /\ res.body.swaggerDoc = swaggerStub => swaggerFiles = {}

\* how the layer with this handler was registered
KindOf(h) == Layers[CHOOSE i \in 1..Len(Layers) : Layers[i].h = h].kind

\* a request that is not answered yet stands at a layer of the stack that
\* takes it: the walk cannot run off the end without a response
InProgress ==
  (req # NoRequest /\ ~res.sent) =>
    /\ pc \in 1..Len(Layers)
    /\ LayerMatches(Layers[pc], req, ctx.err # NoError)

\* the one layer that answered is the last that ran, and every layer that
\* ran before it is a middleware or a router that passed the request on
OneHandler ==
  res.sent =>
    /\ Len(ran) > 0
    /\ ran[Len(ran)] = res.by
    /\ \A i \in 1..(Len(ran) - 1) : KindOf(ran[i]) = "use" /\ ran[i] # res.by

\* which handler answers which path
RouteOwners ==
  (res.sent /\ res.status # 429) =>
    /\ (req.method = "GET" /\ req.path = <<"api", "services", "test">>)
         => res.by = "servicesTest"
    /\ (/\ req.method = "GET"
        /\ Len(req.path) = 4
        /\ IsPrefix(<<"api", "services", "category">>, req.path))
         => res.by = "servicesByCategory"
    /\ res.by = "servicesById" =>
         /\ req.method = "GET"
         /\ Len(req.path) = 3
         /\ IsPrefix(<<"api", "services">>, req.path)
         /\ req.path[3] # "test"
         /\ res.body.data.items = <<JsonEntry(ServiceById(req.path[3]))>>
    /\ (req.method = "POST" /\ req.path = <<"api", "ai", "software-analysis">>)
         => res.by = "softwareAnalysis"
    /\ res.by = "aiIntegrationRoutes" =>
         \A i \in 1..Len(AppRoutes) : ~LayerMatches(AppRoutes[i], req, FALSE)

\* a response that went out is not written again
OneResponse == res.sent => (res' = res \/ ~res'.sent)

\* C25: every request is answered by exactly one layer and gets exactly one
\* response: GET /api/services/test by the test handler, GET
\* /api/services/category/{c} by the category handler, the '/:id' handler
\* only single-segment paths with the segment bound as the id, and the AI
\* endpoints of the app by their own handlers, not by the /api/ai router.
C25_Dispatch ==
  /\ [](InProgress /\ OneHandler /\ RouteOwners)
  /\ [][OneResponse]_vars

\* GET /api/services/test was answered by the test handler and the '/:id'
\* handler did not run
C25_Witness ==
  /\ Answered("servicesTest")
  /\ req.path = <<"api", "services", "test">>
  /\ \A i \in 1..Len(ran) : ran[i] # "servicesById"

\* the ids of the entries the GET /api/services list gives the category
ListedIds(category) ==
  { JsonEntry(services[i]).id.value :
      i \in { j \in 1..Len(services) : services[j].category = category } }

\* C26: for every category name the GET /api/services list carries, GET
\* /api/services/category/{that name} returns a list holding exactly the
\* ids of the entries of that category in the list.
C26_CategoryPartition ==
  (/\ Answered("servicesByCategory")
   /\ \E i \in 1..Len(services) : services[i].category = req.path[4]) =>
    /\ res.body.data.kind = "array"
    /\ { res.body.data.items[k].id.value : k \in 1..Len(res.body.data.items) }
         = ListedIds(req.path[4])

====
